---- MODULE Spec2Model ----
(***************************************************************************)
(* State-machine model of the two Valyu adapters of open-webui:            *)
(*   - ValyuLoader (retrieval/loaders/valyu.py): the generator lazy_load,  *)
(*     modelled as a coroutine the consumer drives with Pull;              *)
(*   - search_valyu (retrieval/web/valyu.py): one call, modelled step by   *)
(*     step, with the provider's behaviour chosen at each step.            *)
(* Python values are tagged records [t |-> type name, v |-> payload]:      *)
(* str (payload a string), int (an integer), NoneType, dict (a function    *)
(* from string keys to values), list (a sequence of values), set.          *)
(* A missing attribute (hasattr false) is the value MISSING.               *)
(***************************************************************************)
EXTENDS Integers, Sequences, FiniteSets, TLC

VARIABLES
    \* ---- ValyuLoader ----
    urls,                 \* self.urls
    continue_on_failure,  \* self.continue_on_failure
    gen,                  \* generator: "created", "running", "suspended", "done", "raised", "closed"
    pc,                   \* position inside lazy_load: "for" (loop head), "results" (inner loop)
    i,                    \* the for loop's i (0, 10, 20, ...)
    response,             \* the response of the current batch
    j,                    \* index (1-based) of the result being processed
    calls,                \* history: the urls argument of every client.contents call
    responses,            \* history: what the provider did at each call
    delivered,            \* history: the Documents yielded to the consumer
    origin,               \* history: for each yielded Document, its batch and provider result
    pulls,                \* history: number of next() calls of the consumer
    callAt,               \* history: for each call, pulls and Len(delivered) when it was issued
    \* ---- search_valyu ----
    query, count, filter_list,   \* arguments
    spc,                  \* position inside search_valyu
    sresponse,            \* response of client.search
    k,                    \* index (1-based) of the raw result being extracted
    results,              \* the local list `results`
    ret,                  \* the returned list
    searchCalls,          \* history: arguments of every client.search call
    fault,                \* history: what went wrong during the call ("none" if nothing)
    filterCalls           \* history: arguments of every get_filtered_results call

loaderVars == <<urls, continue_on_failure, gen, pc, i, response, j, calls,
                responses, delivered, origin, pulls, callAt>>
searchVars == <<query, count, filter_list, spc, sresponse, k, results, ret,
                searchCalls, fault, filterCalls>>
vars == <<loaderVars, searchVars>>

\* ------------------------------------------------------------------ bounds
\* Longest URL list given to the loader (25 gives batches of 10, 10, 5).
MaxUrls == 25

\* ------------------------------------------------------------ Python values
PyStr(s) == [t |-> "str", v |-> s]
PyInt(n) == [t |-> "int", v |-> n]
PyBool(b) == [t |-> "bool", v |-> b]
PyNone == [t |-> "NoneType", v |-> "None"]
PyDict(f) == [t |-> "dict", v |-> f]
PyList(s) == [t |-> "list", v |-> s]
PySet(s) == [t |-> "set", v |-> s]
MISSING == [t |-> "missing", v |-> "missing"]

\* bool(x)
Truthy(x) ==
    CASE x.t = "str" -> x.v # ""
      [] x.t = "int" -> x.v # 0
      [] x.t = "bool" -> x.v
      [] x.t = "NoneType" -> FALSE
      [] x.t = "dict" -> DOMAIN x.v # {}
      [] x.t = "list" -> Len(x.v) > 0
      [] x.t = "set" -> x.v # {}
      [] OTHER -> TRUE

\* getattr(obj, name, default), the attribute already looked up
GetAttr(attr, default) == IF attr.t = "missing" THEN default ELSE attr

\* hasattr(obj, name), the attribute already looked up
HasAttr(attr) == attr.t # "missing"

\* a or b
PyOr(a, b) == IF Truthy(a) THEN a ELSE b

Min(a, b) == IF a < b THEN a ELSE b

\* ======================================================== ValyuLoader
\* batch_size = 10
batch_size == 10

\* The urls argument of the constructor: a list of URLs, or one URL (a str).
\* A URL of the input is a positive integer standing for a distinct non-empty
\* URL string.
Ascending(n) == [m \in 1..n |-> m]
Descending(n) == [m \in 1..n |-> n + 1 - m]
UrlArgs ==
    {PyList(Ascending(n)) : n \in 1..MaxUrls}
    \cup {PyList(Descending(n)) : n \in 2..MaxUrls}
    \cup {[t |-> "str", v |-> 1]}

\* self.urls = urls if isinstance(urls, list) else [urls]
NormalizeUrls(arg) == IF arg.t = "list" THEN arg.v ELSE <<arg.v>>

\* Results the provider may return for a URL (url, content, metadata attributes).
MkResult(u, c, m) == [url |-> u, content |-> c, metadata |-> m]
RPlain == MkResult(PyStr("https://a"), PyStr("x"), MISSING)
REmpty == MkResult(PyStr("https://b"), PyStr(""), PyDict("title" :> PyStr("T")))
RNoneContent == MkResult(PyStr("https://b"), PyNone, MISSING)
RNoContent == MkResult(PyStr("https://a"), MISSING, MISSING)
RMeta == MkResult(PyStr("https://b"), PyStr("y"), PyDict("title" :> PyStr("T")))
RMetaSource == MkResult(PyStr("https://b"), PyStr("x"), PyDict("source" :> PyStr("https://z")))
RMetaStr == MkResult(PyStr("https://a"), PyStr("x"), PyStr("m"))
RMetaEmpty == MkResult(PyStr("https://a"), PyStr("x"), PyDict(<<>>))
RMetaNone == MkResult(PyStr("https://a"), PyStr("x"), PyNone)
RNoUrl == MkResult(MISSING, PyStr("x"), MISSING)

\* The results attribute of a successful response: truthy lists, and the
\* falsy or absent values.
ResultLists ==
    { PyList(<<RPlain>>),
      PyList(<<REmpty, RMeta>>),
      PyList(<<RMetaSource>>),
      PyList(<<RMetaStr, RNoneContent, RMetaEmpty>>),
      PyList(<<RMeta, RNoContent, RMetaNone>>),
      PyList(<<RNoUrl>>),
      PyList(<<REmpty>>) }
NoResultLists == { PyList(<<>>), PyNone, MISSING }

\* What client.contents may do: raise, or return a response object.
RaiseResp == [kind |-> "raise", success |-> PyNone, results |-> MISSING]
OkResp(rs) == [kind |-> "response", success |-> PyBool(TRUE), results |-> rs]
FailResp(rs) == [kind |-> "response", success |-> PyBool(FALSE), results |-> rs]
FailResps == {FailResp(MISSING), FailResp(PyList(<<RPlain>>)),
              [kind |-> "response", success |-> PyInt(0), results |-> MISSING]}
NoResponse == [kind |-> "none", success |-> PyNone, results |-> MISSING]

\* batch_urls = self.urls[i : i + batch_size]
BatchUrlsShort(us, idx) == SubSeq(us, idx + 1, Min(idx + batch_size - 1, Len(us)))
BatchUrls(us, idx) == SubSeq(us, idx + 1, Min(idx + batch_size, Len(us)))

\* if not self.continue_on_failure: raise Exception(...) / continue
OnUnsuccessful(cof) == IF ~cof THEN "exception" ELSE "continue"

\* except Exception as e: if self.continue_on_failure: log.error(...) else: raise e
OnExceptionAlwaysContinue(cof) == "continue"
OnExceptionAlwaysRaise(cof) == "raise"
OnException(cof) == IF cof THEN "continue" ELSE "raise"

\* if not content: log.warning(...); continue
SkipsResultNever(result) == FALSE
SkipsResult(result) == ~Truthy(GetAttr(result.content, PyStr("")))

\* metadata.update(result_metadata)
DictUpdate(d, e) == e @@ d

\* metadata = {"source": url}, then the result's own metadata merged in when
\* it is present, truthy and a dict
BuildMetadata(result) ==
    LET url == GetAttr(result.url, PyStr(""))
        metadata == ("source" :> url)
    IN  IF HasAttr(result.metadata) /\ Truthy(result.metadata)
           /\ result.metadata.t = "dict"
        THEN DictUpdate(metadata, result.metadata.v)
        ELSE metadata

\* Document(page_content=content, metadata=metadata)
Document(content, metadata) == [page_content |-> content, metadata |-> metadata]

\* The generator's state when it yields: it suspends until the next pull.
AfterYieldEager == "running"
AfterYield == "suspended"

\* The step of the for loop after a batch that ended without raising.
NextBatch ==
    /\ i' = i + batch_size
    /\ pc' = "for"
    /\ response' = NoResponse
    /\ j' = 0

\* The generator ends with the exception: nothing after it runs.
RaiseOut ==
    /\ gen' = "raised"
    /\ UNCHANGED <<i, pc, response, j>>

\* client.contents(urls=batch_urls, ...) is called and resp is what it does.
IssueCall(resp) ==
    /\ gen = "running"
    /\ pc = "for"
    /\ i < Len(urls)
    /\ calls' = Append(calls, BatchUrls(urls, i))
    /\ responses' = Append(responses, resp)
    /\ callAt' = Append(callAt, [pulls |-> pulls, delivered |-> Len(delivered)])

\* next(it): the consumer asks for one more document.
Pull ==
    /\ gen \in {"created", "suspended"}
    /\ gen' = "running"
    /\ pulls' = pulls + 1
    /\ UNCHANGED <<urls, continue_on_failure, pc, i, response, j, calls, responses,
                   delivered, origin, callAt>>

\* The consumer drops the iterator (GeneratorExit is not an Exception).
Close ==
    /\ gen \in {"created", "suspended"}
    /\ gen' = "closed"
    /\ UNCHANGED <<urls, continue_on_failure, pc, i, response, j, calls, responses,
                   delivered, origin, pulls, callAt>>

\* client.contents raises.
CallRaises ==
    /\ IssueCall(RaiseResp)
    /\ IF OnException(continue_on_failure) = "continue"
       THEN NextBatch /\ UNCHANGED gen
       ELSE RaiseOut
    /\ UNCHANGED <<urls, continue_on_failure, delivered, origin, pulls>>

\* client.contents returns a response with a falsy success.
CallUnsuccessful ==
    \E resp \in FailResps :
        /\ IssueCall(resp)
        /\ IF OnUnsuccessful(continue_on_failure) = "continue"
              \/ OnException(continue_on_failure) = "continue"
           THEN NextBatch /\ UNCHANGED gen
           ELSE RaiseOut
        /\ UNCHANGED <<urls, continue_on_failure, delivered, origin, pulls>>

\* A successful response without results: a warning, then the next batch.
CallNoResults ==
    \E rs \in NoResultLists :
        /\ IssueCall(OkResp(rs))
        /\ NextBatch
        /\ UNCHANGED <<urls, continue_on_failure, gen, delivered, origin, pulls>>

\* A successful response with results: the inner loop starts.
CallWithResults ==
    \E rs \in ResultLists :
        /\ IssueCall(OkResp(rs))
        /\ response' = OkResp(rs)
        /\ pc' = "results"
        /\ j' = 1
        /\ UNCHANGED <<urls, continue_on_failure, gen, i, delivered, origin, pulls>>

\* The inner loop meets a result without content.
SkipResult ==
    /\ gen = "running"
    /\ pc = "results"
    /\ j <= Len(response.results.v)
    /\ SkipsResult(response.results.v[j])
    /\ j' = j + 1
    /\ UNCHANGED <<urls, continue_on_failure, gen, pc, i, response, calls, responses,
                   delivered, origin, pulls, callAt>>

\* The inner loop yields the Document of a result with content; on the next
\* pull the loop goes on with the result after it.
YieldDocument ==
    /\ gen = "running"
    /\ pc = "results"
    /\ j <= Len(response.results.v)
    /\ ~SkipsResult(response.results.v[j])
    /\ LET result == response.results.v[j]
       IN  /\ delivered' = Append(delivered,
                  Document(GetAttr(result.content, PyStr("")), BuildMetadata(result)))
           /\ origin' = Append(origin, [batch |-> Len(calls), result |-> result])
    /\ gen' = AfterYield
    /\ j' = j + 1
    /\ UNCHANGED <<urls, continue_on_failure, pc, i, response, calls, responses,
                   pulls, callAt>>

\* The inner loop is over: the for loop goes on.
EndBatch ==
    /\ gen = "running"
    /\ pc = "results"
    /\ j > Len(response.results.v)
    /\ NextBatch
    /\ UNCHANGED <<urls, continue_on_failure, gen, calls, responses, delivered,
                   origin, pulls, callAt>>

\* range(0, len(self.urls), batch_size) is exhausted: StopIteration.
Exhausted ==
    /\ gen = "running"
    /\ pc = "for"
    /\ i >= Len(urls)
    /\ gen' = "done"
    /\ UNCHANGED <<urls, continue_on_failure, pc, i, response, j, calls, responses,
                   delivered, origin, pulls, callAt>>

\* ======================================================== search_valyu
\* count or 10
DefaultMaxResults == 10

\* Arguments of the call.
Queries == {"open webui", ""}
Counts == {PyNone, PyInt(0), PyInt(1), PyInt(3), PyInt(10), PyInt(25), PyInt(-1)}
FilterLists == {PyNone, PyList(<<>>), PyList(<<"a.com">>), PyList(<<"z.org">>),
                PyList(<<"b.com", "a.com">>)}

\* repr(x); the dicts and sets of the model hold at most one element, so that
\* no order of keys has to be chosen.
RECURSIVE PyRepr(_)
RECURSIVE ReprItems(_)
ReprItems(xs) ==
    IF Len(xs) = 0 THEN ""
    ELSE IF Len(xs) = 1 THEN PyRepr(xs[1])
    ELSE PyRepr(xs[1]) \o ", " \o ReprItems(Tail(xs))
PyRepr(x) ==
    CASE x.t = "str" -> "'" \o x.v \o "'"
      [] x.t = "int" -> ToString(x.v)
      [] x.t = "bool" -> IF x.v THEN "True" ELSE "False"
      [] x.t = "NoneType" -> "None"
      [] x.t = "list" -> "[" \o ReprItems(x.v) \o "]"
      [] x.t = "dict" ->
            IF DOMAIN x.v = {} THEN "{}"
            ELSE LET key == CHOOSE c \in DOMAIN x.v : TRUE
                 IN  "{'" \o key \o "': " \o PyRepr(x.v[key]) \o "}"
      [] x.t = "set" ->
            IF x.v = {} THEN "set()"
            ELSE "{" \o PyRepr(CHOOSE e \in x.v : TRUE) \o "}"

\* str(x)
PyStrOf(x) == IF x.t = "str" THEN x.v ELSE PyRepr(x)

\* Whether json.dumps(x) returns (it raises TypeError on a set).
RECURSIVE Serializable(_)
Serializable(x) ==
    CASE x.t \in {"str", "int", "bool", "NoneType"} -> TRUE
      [] x.t = "list" -> \A n \in 1..Len(x.v) : Serializable(x.v[n])
      [] x.t = "dict" -> \A c \in DOMAIN x.v : Serializable(x.v[c])
      [] OTHER -> FALSE

\* json.dumps(x, indent=2), x at nesting level lvl
RECURSIVE Indent(_)
Indent(lvl) == IF lvl = 0 THEN "" ELSE "  " \o Indent(lvl - 1)
RECURSIVE JsonValue(_, _)
RECURSIVE JsonItems(_, _)
JsonItems(xs, lvl) ==
    IF Len(xs) = 1 THEN Indent(lvl) \o JsonValue(xs[1], lvl)
    ELSE Indent(lvl) \o JsonValue(xs[1], lvl) \o ",\n" \o JsonItems(Tail(xs), lvl)
JsonValue(x, lvl) ==
    CASE x.t = "str" -> "\"" \o x.v \o "\""
      [] x.t = "int" -> ToString(x.v)
      [] x.t = "bool" -> IF x.v THEN "true" ELSE "false"
      [] x.t = "NoneType" -> "null"
      [] x.t = "list" ->
            IF Len(x.v) = 0 THEN "[]"
            ELSE "[\n" \o JsonItems(x.v, lvl + 1) \o "\n" \o Indent(lvl) \o "]"
      [] x.t = "dict" ->
            IF DOMAIN x.v = {} THEN "{}"
            ELSE LET key == CHOOSE c \in DOMAIN x.v : TRUE
                 IN  "{\n" \o Indent(lvl + 1) \o "\"" \o key \o "\": "
                     \o JsonValue(x.v[key], lvl + 1) \o "\n" \o Indent(lvl) \o "}"
JsonDumpsIndent2(x) == JsonValue(x, 0)

\* Raw results of the provider (url, title, content, text, snippet, data_type).
MkRaw(u, ti, c, tx, sn, dt) ==
    [url |-> u, title |-> ti, content |-> c, text |-> tx, snippet |-> sn, data_type |-> dt]
SA == MkRaw(PyStr("https://a.com/1"), PyStr("A"), PyStr("c"), MISSING, MISSING, MISSING)
SNoUrl == MkRaw(PyStr(""), PyStr("A"), PyStr("c"), MISSING, MISSING, PyStr("unstructured"))
SMissingUrl == MkRaw(MISSING, PyStr("M"), PyStr("c"), MISSING, MISSING, MISSING)
SText == MkRaw(PyStr("https://b.com/2"), MISSING, PyStr(""), PyStr("t"), PyStr("s"), MISSING)
SSnippet == MkRaw(PyStr("https://b.com/3"), PyStr("S"), MISSING, PyNone, PyStr("s"), MISSING)
SNoContent == MkRaw(PyStr("https://a.com/4"), PyNone, MISSING, MISSING, PyNone, MISSING)
SStruct == MkRaw(PyStr("https://a.com/5"), PyStr("D"), PyDict("a" :> PyInt(1)), MISSING,
                 MISSING, PyStr("structured"))
SStructList == MkRaw(PyStr("https://b.com/6"), PyStr("L"),
                     PyList(<<PyInt(1), PyStr("b"), PyDict("a" :> PyNone)>>), MISSING,
                     MISSING, PyStr("structured"))
SStructBad == MkRaw(PyStr("https://a.com/7"), PyStr("B"), PyDict("k" :> PySet({PyInt(1)})),
                    MISSING, MISSING, PyStr("structured"))
SStructInt == MkRaw(PyStr("https://b.com/8"), PyStr("I"), PyInt(5), MISSING, MISSING,
                    PyStr("structured"))
SStructStr == MkRaw(PyStr("https://a.com/9"), PyStr("X"), PyStr("c"), MISSING, MISSING,
                    PyStr("structured"))
SUnstructInt == MkRaw(PyStr("https://b.com/10"), PyStr("U"), PyInt(5), MISSING, MISSING,
                      PyStr("unstructured"))
SUnstructDict == MkRaw(PyStr("https://a.com/11"), PyStr("V"), PyDict("a" :> PyInt(1)),
                       MISSING, MISSING, MISSING)

\* The results attribute of a search response.
SearchResultLists ==
    { PyList(<<SA, SNoUrl, SText>>),
      PyList(<<SNoUrl>>),
      PyList(<<SMissingUrl, SSnippet, SNoContent>>),
      PyList(<<SStruct, SStructBad>>),
      PyList(<<SStructList, SStructInt, SStructStr>>),
      PyList(<<SUnstructInt, SA>>),
      PyList(<<SUnstructDict>>),
      PyList(<<SText, SA>>),
      PyList(<<>>), PyNone, MISSING }
\* A results attribute that cannot be iterated (TypeError in the for statement).
NotIterable == PyInt(5)
SearchResponses ==
    {[success |-> PyBool(TRUE), results |-> rs] : rs \in SearchResultLists \cup {NotIterable}}
    \cup {[success |-> PyBool(FALSE), results |-> rs] : rs \in {MISSING, PyList(<<SA>>)}}
    \cup {[success |-> MISSING, results |-> PyList(<<SA>>)]}
NoSearchResponse == [success |-> MISSING, results |-> MISSING]

\* max_num_results=count or 10
MaxNumResultsNoDefault(c) == c
MaxNumResults(c) == PyOr(c, PyInt(DefaultMaxResults))

\* content = getattr(result, "content", "") or getattr(result, "text", "")
\*           or getattr(result, "snippet", "")
SelectContent(raw) ==
    PyOr(PyOr(GetAttr(raw.content, PyStr("")), GetAttr(raw.text, PyStr(""))),
         GetAttr(raw.snippet, PyStr("")))

\* if data_type == "structured" and content: dict or list to indented JSON
\* (str(content) when json.dumps raises), another non-str to str(content)
ConvertContent(data_type, content) ==
    IF data_type = PyStr("structured") /\ Truthy(content)
    THEN IF content.t \in {"dict", "list"}
         THEN IF Serializable(content)
              THEN PyStr(JsonDumpsIndent2(content))
              ELSE PyStr(PyStrOf(content))
         ELSE IF content.t # "str"
              THEN PyStr(PyStrOf(content))
              ELSE content
    ELSE content

\* if url: (the result is appended to results)
KeepsRawAlways(url) == TRUE
KeepsRaw(url) == Truthy(url)

\* The dict appended to results for one raw result.
ExtractedDict(raw) ==
    LET data_type == GetAttr(raw.data_type, PyStr("unstructured"))
    IN  [url |-> GetAttr(raw.url, PyStr("")),
         title |-> GetAttr(raw.title, PyStr("")),
         content |-> ConvertContent(data_type, SelectContent(raw)),
         data_type |-> data_type]

\* if filter_list and results:
CallsFilter(fl, rs) == Truthy(fl) /\ Len(rs) > 0

\* The host's domain filter: keeps the results whose url's domain is in the list.
Netloc(url) ==
    CASE url \in {"https://a.com/1", "https://a.com/4", "https://a.com/5", "https://a.com/7",
                  "https://a.com/9", "https://a.com/11"} -> "a.com"
      [] url \in {"https://b.com/2", "https://b.com/3", "https://b.com/6", "https://b.com/8",
                  "https://b.com/10"} -> "b.com"
      [] OTHER -> ""
InFilter(url, fl) == \E n \in 1..Len(fl) : fl[n] = Netloc(url)
get_filtered_results(rs, fl) ==
    LET Match(r) == r.url.t = "str" /\ InFilter(r.url.v, fl)
    IN  SelectSeq(rs, Match)

\* The host's SearchResult(link=..., title=..., snippet=...)
SearchResult(link, title, snippet) == [link |-> link, title |-> title, snippet |-> snippet]

\* The returned list: one SearchResult per element of results.
BuildResults(rs) ==
    [n \in 1..Len(rs) |-> SearchResult(rs[n].url, rs[n].title, rs[n].content)]

\* except ImportError: log.error(...); return []
ImportErrorHandler(f) ==
    /\ spc' = "returned"
    /\ ret' = <<>>
    /\ fault' = f

\* An exception no handler catches leaves search_valyu: the call raises.
Propagate(f) ==
    /\ spc' = "raised"
    /\ ret' = ret
    /\ fault' = f

\* except Exception as e: log.error(...); return []
CatchException(f) ==
    /\ spc' = "returned"
    /\ ret' = <<>>
    /\ fault' = f

\* from valyu import Valyu
ImportValyu ==
    /\ spc = "start"
    /\ spc' = "client"
    /\ UNCHANGED <<query, count, filter_list, sresponse, k, results, ret, searchCalls,
                   fault, filterCalls>>

ImportFails ==
    /\ spc = "start"
    /\ ImportErrorHandler("import")
    /\ UNCHANGED <<query, count, filter_list, sresponse, k, results, searchCalls,
                   filterCalls>>

\* from valyu import Valyu raises something that is no ImportError (the
\* package is installed and fails while it loads): the import statement is
\* guarded by `except ImportError` alone and stands before the try block of
\* the catch-all handler, so the exception leaves search_valyu.
ImportRaisesOther ==
    /\ spc = "start"
    /\ Propagate("import_other")
    /\ UNCHANGED <<query, count, filter_list, sresponse, k, results, searchCalls,
                   filterCalls>>

\* client = Valyu(api_key=api_key)
ConstructClient ==
    /\ spc = "client"
    /\ spc' = "search"
    /\ UNCHANGED <<query, count, filter_list, sresponse, k, results, ret, searchCalls,
                   fault, filterCalls>>

ConstructClientRaises ==
    /\ spc = "client"
    /\ CatchException("client")
    /\ UNCHANGED <<query, count, filter_list, sresponse, k, results, searchCalls,
                   filterCalls>>

\* The arguments of client.search(query=query, max_num_results=count or 10)
IssueSearch ==
    /\ spc = "search"
    /\ searchCalls' = Append(searchCalls,
           [query |-> query, max_num_results |-> MaxNumResults(count)])

\* response = client.search(...)
ClientSearch ==
    \E resp \in SearchResponses :
        /\ IssueSearch
        /\ sresponse' = resp
        /\ spc' = "check"
        /\ UNCHANGED <<query, count, filter_list, k, results, ret, fault, filterCalls>>

ClientSearchRaises ==
    /\ IssueSearch
    /\ CatchException("search")
    /\ UNCHANGED <<query, count, filter_list, sresponse, k, results, filterCalls>>

\* if not response.success: log.error(...); return []
\* then: results = []; if hasattr(response, "results") and response.results:
CheckSuccess ==
    /\ spc = "check"
    /\ HasAttr(sresponse.success)
    /\ IF ~Truthy(sresponse.success)
       THEN /\ spc' = "returned"
            /\ ret' = <<>>
            /\ fault' = "unsuccessful"
            /\ UNCHANGED <<k, results>>
       ELSE /\ results' = <<>>
            /\ IF HasAttr(sresponse.results) /\ Truthy(sresponse.results)
               THEN spc' = "extract" /\ k' = 1
               ELSE spc' = "filter" /\ k' = k
            /\ UNCHANGED <<ret, fault>>
    /\ UNCHANGED <<query, count, filter_list, sresponse, searchCalls, filterCalls>>

\* response.success raises AttributeError
CheckSuccessRaises ==
    /\ spc = "check"
    /\ ~HasAttr(sresponse.success)
    /\ CatchException("attribute")
    /\ UNCHANGED <<query, count, filter_list, sresponse, k, results, searchCalls,
                   filterCalls>>

\* for result in response.results: one iteration
ExtractResult ==
    /\ spc = "extract"
    /\ sresponse.results.t = "list"
    /\ k <= Len(sresponse.results.v)
    /\ LET raw == sresponse.results.v[k]
           d == ExtractedDict(raw)
       IN  results' = IF KeepsRaw(d.url) THEN Append(results, d) ELSE results
    /\ k' = k + 1
    /\ UNCHANGED <<query, count, filter_list, spc, sresponse, ret, searchCalls, fault,
                   filterCalls>>

\* for result in response.results: the list is exhausted
ExtractDone ==
    /\ spc = "extract"
    /\ sresponse.results.t = "list"
    /\ k > Len(sresponse.results.v)
    /\ spc' = "filter"
    /\ UNCHANGED <<query, count, filter_list, sresponse, k, results, ret, searchCalls,
                   fault, filterCalls>>

\* for result in response.results: response.results is not iterable
ExtractRaises ==
    /\ spc = "extract"
    /\ sresponse.results.t # "list"
    /\ CatchException("iterate")
    /\ UNCHANGED <<query, count, filter_list, sresponse, k, results, searchCalls,
                   filterCalls>>

\* if filter_list and results: results = get_filtered_results(results, filter_list)
ApplyFilter ==
    /\ spc = "filter"
    /\ IF CallsFilter(filter_list, results)
       THEN /\ results' = get_filtered_results(results, filter_list.v)
            /\ filterCalls' = Append(filterCalls,
                   [results |-> results, filter_list |-> filter_list.v])
       ELSE UNCHANGED <<results, filterCalls>>
    /\ spc' = "build"
    /\ UNCHANGED <<query, count, filter_list, sresponse, k, ret, searchCalls, fault>>

\* get_filtered_results raises
FilterRaises ==
    /\ spc = "filter"
    /\ CallsFilter(filter_list, results)
    /\ filterCalls' = Append(filterCalls,
           [results |-> results, filter_list |-> filter_list.v])
    /\ CatchException("filter")
    /\ UNCHANGED <<query, count, filter_list, sresponse, k, results, searchCalls>>

\* return [SearchResult(...) for result in results]
BuildReturn ==
    /\ spc = "build"
    /\ ret' = BuildResults(results)
    /\ spc' = "returned"
    /\ UNCHANGED <<query, count, filter_list, sresponse, k, results, searchCalls, fault,
                   filterCalls>>

\* SearchResult(...) raises (a value the host's type refuses)
BuildRaises ==
    /\ spc = "build"
    /\ Len(results) > 0
    /\ CatchException("searchresult")
    /\ UNCHANGED <<query, count, filter_list, sresponse, k, results, searchCalls,
                   filterCalls>>

\* ======================================================== specifications
LoaderIdle ==
    /\ urls = <<1>>
    /\ continue_on_failure = TRUE
    /\ gen = "closed"
    /\ pc = "for"
    /\ i = 0
    /\ response = NoResponse
    /\ j = 0
    /\ calls = <<>>
    /\ responses = <<>>
    /\ delivered = <<>>
    /\ origin = <<>>
    /\ pulls = 0
    /\ callAt = <<>>

SearchIdle ==
    /\ query = ""
    /\ count = PyNone
    /\ filter_list = PyNone
    /\ spc = "idle"
    /\ sresponse = NoSearchResponse
    /\ k = 0
    /\ results = <<>>
    /\ ret = <<>>
    /\ searchCalls = <<>>
    /\ fault = "none"
    /\ filterCalls = <<>>

\* ValyuLoader(urls, api_key, continue_on_failure=...) was constructed and
\* lazy_load() was called: the generator exists and has not run.
Init ==
    /\ \E arg \in UrlArgs : urls = NormalizeUrls(arg)
    /\ continue_on_failure \in BOOLEAN
    /\ gen = "created"
    /\ pc = "for"
    /\ i = 0
    /\ response = NoResponse
    /\ j = 0
    /\ calls = <<>>
    /\ responses = <<>>
    /\ delivered = <<>>
    /\ origin = <<>>
    /\ pulls = 0
    /\ callAt = <<>>
    /\ SearchIdle

Next ==
    \/ (Pull /\ UNCHANGED searchVars)
    \/ (Close /\ UNCHANGED searchVars)
    \/ (CallRaises /\ UNCHANGED searchVars)
    \/ (CallUnsuccessful /\ UNCHANGED searchVars)
    \/ (CallNoResults /\ UNCHANGED searchVars)
    \/ (CallWithResults /\ UNCHANGED searchVars)
    \/ (SkipResult /\ UNCHANGED searchVars)
    \/ (YieldDocument /\ UNCHANGED searchVars)
    \/ (EndBatch /\ UNCHANGED searchVars)
    \/ (Exhausted /\ UNCHANGED searchVars)

Spec == Init /\ [][Next]_vars

\* search_valyu(api_key, query, count, filter_list) was called.
InitSearch ==
    /\ query \in Queries
    /\ count \in Counts
    /\ filter_list \in FilterLists
    /\ spc = "start"
    /\ sresponse = NoSearchResponse
    /\ k = 0
    /\ results = <<>>
    /\ ret = <<>>
    /\ searchCalls = <<>>
    /\ fault = "none"
    /\ filterCalls = <<>>
    /\ LoaderIdle

NextSearch ==
    \/ (ImportValyu /\ UNCHANGED loaderVars)
    \/ (ImportFails /\ UNCHANGED loaderVars)
    \/ (ImportRaisesOther /\ UNCHANGED loaderVars)
    \/ (ConstructClient /\ UNCHANGED loaderVars)
    \/ (ConstructClientRaises /\ UNCHANGED loaderVars)
    \/ (ClientSearch /\ UNCHANGED loaderVars)
    \/ (ClientSearchRaises /\ UNCHANGED loaderVars)
    \/ (CheckSuccess /\ UNCHANGED loaderVars)
    \/ (CheckSuccessRaises /\ UNCHANGED loaderVars)
    \/ (ExtractResult /\ UNCHANGED loaderVars)
    \/ (ExtractDone /\ UNCHANGED loaderVars)
    \/ (ExtractRaises /\ UNCHANGED loaderVars)
    \/ (ApplyFilter /\ UNCHANGED loaderVars)
    \/ (FilterRaises /\ UNCHANGED loaderVars)
    \/ (BuildReturn /\ UNCHANGED loaderVars)
    \/ (BuildRaises /\ UNCHANGED loaderVars)

SpecSearch == InitSearch /\ [][NextSearch]_vars

\* ======================================================== properties: ValyuLoader
RECURSIVE Flatten(_)
Flatten(ss) == IF Len(ss) = 0 THEN <<>> ELSE Head(ss) \o Flatten(Tail(ss))

\* The provider failed at this call: it raised, or answered success = false.
Failed(resp) == resp.kind = "raise" \/ ~Truthy(resp.success)

\* The results of a response, as a sequence (none when absent or falsy).
ResultsOf(resp) ==
    IF resp.kind = "response" /\ resp.results.t = "list" THEN resp.results.v ELSE <<>>

HasContent(result) == HasAttr(result.content) /\ Truthy(result.content)

\* The results of a response that have content, none for a failed call.
WithContent(resp) ==
    IF Failed(resp) THEN <<>> ELSE SelectSeq(ResultsOf(resp), HasContent)

\* The provider results the documents of batch b were built from, in the
\* order of their delivery.
OriginsOf(b) ==
    LET FromB(o) == o.batch = b
        sel == SelectSeq(origin, FromB)
    IN  [n \in 1..Len(sel) |-> sel[n].result]

\* Batch b is over: a later call was issued, or the generator ended.
BatchOver(b) == b < Len(calls) \/ gen \in {"done", "raised"}

NoFailure == \A b \in 1..Len(responses) : ~Failed(responses[b])

\* C1: without a failing batch, a full consumption issues ceil(n/10) calls;
\* the k-th call (from 0) receives urls[10k .. 10k+9] in input order: a batch
\* has at most 10 URLs, every batch but the last exactly 10, and the batches
\* concatenated in call order are the input list.
C1_Batches ==
    /\ \A c \in 1..Len(calls) :
          /\ Len(calls[c]) \in 1..10
          /\ c < Len(calls) => Len(calls[c]) = 10
          /\ \A m \in 1..Len(calls[c]) : calls[c][m] = urls[10 * (c - 1) + m]
    /\ Len(Flatten(calls)) <= Len(urls)
    /\ Flatten(calls) = SubSeq(urls, 1, Len(Flatten(calls)))
    /\ (gen = "done" /\ NoFailure) =>
          /\ Len(calls) = (Len(urls) + 9) \div 10
          /\ Flatten(calls) = urls

C1_Witness ==
    /\ gen = "done"
    /\ NoFailure
    /\ Len(urls) = 25
    /\ urls[1] = 25
    /\ Len(calls) = 3
    /\ Len(calls[1]) = 10 /\ Len(calls[2]) = 10 /\ Len(calls[3]) = 5

\* C2: with continue_on_failure = true, a batch whose call raised or answered
\* success = false yields no document, nothing is raised to the consumer, and
\* the later batches are still called and their documents yielded.
C2_ContinueOnFailure ==
    continue_on_failure =>
        /\ gen # "raised"
        /\ \A b \in 1..Len(responses) :
              /\ Failed(responses[b]) => OriginsOf(b) = <<>>
              /\ (Failed(responses[b]) /\ b = Len(responses) /\ gen = "running")
                    => pc = "for" /\ i = 10 * b
              /\ (BatchOver(b) /\ ~Failed(responses[b]))
                    => OriginsOf(b) = WithContent(responses[b])
        /\ gen = "done" => Len(calls) = (Len(urls) + 9) \div 10

C2_Witness ==
    /\ continue_on_failure
    /\ gen = "done"
    /\ Len(responses) = 3
    /\ responses[1].kind = "raise"
    /\ responses[2].kind = "response" /\ Failed(responses[2])
    /\ Len(OriginsOf(3)) = 2

\* C3: with continue_on_failure = false, a batch whose call raised or answered
\* success = false makes the iteration raise at that batch: no later call is
\* issued, and the documents of the earlier batches were all delivered and
\* stay delivered.
C3_StopOnFailure ==
    (~continue_on_failure) =>
        \A b \in 1..Len(responses) :
            Failed(responses[b]) =>
                /\ gen = "raised"
                /\ b = Len(responses)
                /\ Len(calls) = b
                /\ OriginsOf(b) = <<>>
                /\ \A e \in 1..(b - 1) :
                      OriginsOf(e) = WithContent(responses[e])
                /\ Len(delivered) = Len(origin)

C3_Witness ==
    /\ ~continue_on_failure
    /\ gen = "raised"
    /\ Len(urls) = 25
    /\ Len(calls) = 2
    /\ responses[2].kind = "response"
    /\ Len(delivered) = 2

\* C5: every yielded Document has metadata["source"] equal to the url of the
\* provider result it was built from, whatever the result's own metadata holds.
C5_SourceIsUrl ==
    \A d \in 1..Len(delivered) :
        /\ "source" \in DOMAIN delivered[d].metadata
        /\ delivered[d].metadata["source"] = GetAttr(origin[d].result.url, PyStr(""))

\* The result supplies no metadata: absent, empty (falsy) or not a dict.
NoMetadata(result) ==
    \/ ~HasAttr(result.metadata)
    \/ ~Truthy(result.metadata)
    \/ result.metadata.t # "dict"

\* C6: a result with falsy content is never yielded; the documents of a
\* successful batch are its results with content, in the provider's order;
\* a result with content and no metadata (absent, empty or not a dict)
\* yields metadata exactly {source: url}.
C6_ContentFilter ==
    /\ Len(delivered) = Len(origin)
    /\ \A d \in 1..Len(delivered) :
          /\ Truthy(delivered[d].page_content)
          /\ delivered[d].page_content = origin[d].result.content
          /\ NoMetadata(origin[d].result) =>
                delivered[d].metadata = ("source" :> GetAttr(origin[d].result.url, PyStr("")))
          /\ d > 1 => origin[d - 1].batch <= origin[d].batch
    /\ \A b \in 1..Len(responses) :
          (BatchOver(b) /\ ~Failed(responses[b]))
              => OriginsOf(b) = WithContent(responses[b])

C6_Witness ==
    /\ gen = "done"
    /\ Len(responses) = 2
    /\ responses[1].results = PyList(<<RMetaStr, RNoneContent, RMetaEmpty>>)
    /\ responses[2].results = PyList(<<REmpty>>)
    /\ Len(delivered) = 2
    /\ delivered[2].metadata = ("source" :> PyStr("https://a"))

\* Documents the batches before call c yield in all.
RECURSIVE DocsBefore(_)
DocsBefore(c) ==
    IF c <= 1 THEN 0
    ELSE DocsBefore(c - 1) + Len(WithContent(responses[c - 1]))

\* At every call the consumer was asking for one document more than it had
\* received, and had received every document of the earlier batches.
C10_Demand ==
    /\ Len(calls) > 0 => pulls > 0
    /\ Len(callAt) = Len(calls)
    /\ \A c \in 1..Len(calls) :
          /\ callAt[c].pulls = callAt[c].delivered + 1
          /\ callAt[c].delivered = DocsBefore(c)
    /\ gen \in {"created", "suspended", "closed"} => pulls = Len(delivered)

\* C10: lazy_load is demand-driven: no call before the first pull; a call is
\* issued only while the consumer asks for one document more than it has
\* received, all documents of the earlier batches received; a consumer that
\* has stopped pulling (suspended or dropped generator) causes no further call.
C10_DemandDriven ==
    /\ []C10_Demand
    /\ [][gen # "running" => calls' = calls]_vars
    /\ [][gen = "closed" => (gen' = "closed" /\ calls' = calls)]_vars

C10_Witness ==
    /\ gen = "closed"
    /\ Len(urls) = 25
    /\ Len(calls) = 2
    /\ callAt[2].delivered = 2
    /\ Len(delivered) = 3

\* ======================================================== properties: search_valyu
\* The raw results of the response, as a sequence (none when absent or falsy).
RawResults ==
    IF HasAttr(sresponse.results) /\ sresponse.results.t = "list"
    THEN sresponse.results.v ELSE <<>>

\* The raw results that have a non-empty url, in the provider's order, as the
\* records {url} the filter reads.
RawWithUrl ==
    LET HasUrl(raw) == HasAttr(raw.url) /\ raw.url.t = "str" /\ raw.url.v # ""
        sel == SelectSeq(RawResults, HasUrl)
    IN  [n \in 1..Len(sel) |-> [url |-> sel[n].url]]

\* The raw result a returned link comes from (the urls of the raw results
\* of the model are distinct).
RawOf(link) == CHOOSE raw \in {RawResults[n] : n \in 1..Len(RawResults)} : raw.url = link

LinksOf(rs) == [n \in 1..Len(rs) |-> rs[n].link]
UrlsOf(rs) == [n \in 1..Len(rs) |-> rs[n].url]

\* The call returned on its normal path, from a successful response.
ReturnedNormally == spc = "returned" /\ fault = "none"

\* C4: search_valyu never raises: whatever the provider (its package not
\* importable included), the filter and SearchResult do, the call returns a
\* list, and the list is empty whenever something raised or the response
\* signalled failure.
C4_NeverRaises ==
    /\ spc # "raised"
    /\ fault # "none" => (spc = "returned" /\ ret = <<>>)
    /\ spc # "returned" => ret = <<>>

\* C7: from a successful response the call returns one result per element of
\* F, in F's order, link = url, where L is the raw results with a non-empty
\* url and F = get_filtered_results(L, filter_list) when filter_list and L are
\* non-empty, F = L otherwise, the filter then not being called.
C7_UrlAndFilter ==
    ReturnedNormally =>
        LET L == RawWithUrl
            filtered == Truthy(filter_list) /\ Len(L) > 0
            F == IF filtered THEN get_filtered_results(L, filter_list.v) ELSE L
        IN  /\ LinksOf(ret) = UrlsOf(F)
            /\ filtered => /\ Len(filterCalls) = 1
                           /\ UrlsOf(filterCalls[1].results) = UrlsOf(L)
                           /\ filterCalls[1].filter_list = filter_list.v
            /\ ~filtered => filterCalls = <<>>
            /\ \A n \in 1..Len(ret) : Truthy(ret[n].link)

C7_Witness ==
    /\ ReturnedNormally
    /\ sresponse.results = PyList(<<SA, SNoUrl, SText>>)
    /\ filter_list = PyList(<<"a.com">>)
    /\ LinksOf(ret) = <<PyStr("https://a.com/1")>>

\* The content of a raw result that is present, is no string, and is not a
\* dict or list of a structured result.
NeedsCoercion(raw) ==
    LET c == SelectContent(raw)
    IN  /\ Truthy(c)
        /\ c.t # "str"
        /\ ~(GetAttr(raw.data_type, PyStr("unstructured")) = PyStr("structured")
             /\ c.t \in {"dict", "list"})

\* C8: whatever the data_type, a present content that is no string and not
\* the structured dict or list case gives snippet = str(content), and every
\* returned snippet is a string.
C8_CoercedWhateverType ==
    ReturnedNormally =>
        \A n \in 1..Len(ret) :
            LET raw == RawOf(ret[n].link)
            IN  /\ NeedsCoercion(raw) => ret[n].snippet = PyStr(PyStrOf(SelectContent(raw)))
                /\ ret[n].snippet.t = "str"

\* C9: once the package is loaded and the client constructed, the call issues
\* exactly one client.search, with the caller's query and max_num_results =
\* count, or 10 when count is 0 or None.
C9_OneSearchCall ==
    /\ Len(searchCalls) <= 1
    /\ spc \in {"start", "client", "search"} => searchCalls = <<>>
    /\ fault \in {"import", "import_other", "client"} => searchCalls = <<>>
    /\ (spc \notin {"start", "client", "search"}
        /\ fault \notin {"import", "import_other", "client"}) =>
          /\ Len(searchCalls) = 1
          /\ searchCalls[1].query = query
          /\ searchCalls[1].max_num_results =
                IF count.t = "NoneType" \/ (count.t = "int" /\ count.v = 0)
                THEN PyInt(10) ELSE count

C9_Witness ==
    /\ spc = "returned"
    /\ count = PyInt(0)
    /\ Len(searchCalls) = 1
    /\ searchCalls[1].max_num_results = PyInt(10)
    /\ Len(ret) > 0

====
